---- MODULE Spec2Model ----
(***************************************************************************)
(* A model of the obfus library: the Squares counter generator             *)
(* (src/src/prng.rs), the reversible Fisher-Yates shuffle                  *)
(* (src/src/shuffle.rs) and the fixed-capacity staging buffer              *)
(* (src/src/crypto.rs) with its zeroing truncate (src/src/utils.rs).       *)
(*                                                                         *)
(* A u64 / usize value is kept at its full width as eight base-256 limbs,  *)
(* least significant first, because the generator's arithmetic wraps at    *)
(* 2^64 and the shuffle's loops rely on that wrapping.                     *)
(***************************************************************************)
EXTENDS Integers, Sequences, FiniteSets

(***************************************************************************)
(* 64-bit wrapping arithmetic (core::u64 / usize).                         *)
(***************************************************************************)
Limbs == 8
Radix == 256

RECURSIVE LimbsOf(_, _)
LimbsOf(n, k) == IF k = 0 THEN <<>> ELSE <<n % Radix>> \o LimbsOf(n \div Radix, k - 1)

\* A small natural number as a u64.
U64(n) == LimbsOf(n, Limbs)

U64_ZERO == U64(0)
U64_MAX == [i \in 1..Limbs |-> Radix - 1]

\* a < b on u64 values: decided by the most significant limb that differs.
RECURSIVE LtFrom(_, _, _)
LtFrom(a, b, i) ==
    IF i = 0 THEN FALSE
    ELSE IF a[i] # b[i] THEN a[i] < b[i]
    ELSE LtFrom(a, b, i - 1)

U64Lt(a, b) == LtFrom(a, b, Limbs)

\* The value of a u64 known to be below a small bound, as a number.
U64ToNat(a) == a[1] + Radix * a[2] + Radix * Radix * a[3]

RECURSIVE AddFrom(_, _, _, _)
AddFrom(a, b, i, carry) ==
    IF i > Limbs THEN <<>>
    ELSE LET s == a[i] + b[i] + carry
         IN  <<s % Radix>> \o AddFrom(a, b, i + 1, s \div Radix)

\* u64::wrapping_add
wrapping_add(a, b) == AddFrom(a, b, 1, 0)

RECURSIVE SubFrom(_, _, _, _)
SubFrom(a, b, i, borrow) ==
    IF i > Limbs THEN <<>>
    ELSE LET d == a[i] - b[i] - borrow
         IN  IF d < 0 THEN <<d + Radix>> \o SubFrom(a, b, i + 1, 1)
             ELSE <<d>> \o SubFrom(a, b, i + 1, 0)

\* u64::wrapping_sub
wrapping_sub(a, b) == SubFrom(a, b, 1, 0)

\* u64::wrapping_mul: the low 64 bits of the product, by columns of limb
\* products with the carry of each column passed to the next.
wrapping_mul(a, b) ==
    LET c1 == a[1] * b[1]
        c2 == a[1] * b[2] + a[2] * b[1] + (c1 \div Radix)
        c3 == a[1] * b[3] + a[2] * b[2] + a[3] * b[1] + (c2 \div Radix)
        c4 == a[1] * b[4] + a[2] * b[3] + a[3] * b[2] + a[4] * b[1] + (c3 \div Radix)
        c5 == a[1] * b[5] + a[2] * b[4] + a[3] * b[3] + a[4] * b[2] + a[5] * b[1] + (c4 \div Radix)
        c6 == a[1] * b[6] + a[2] * b[5] + a[3] * b[4] + a[4] * b[3] + a[5] * b[2] + a[6] * b[1] + (c5 \div Radix)
        c7 == a[1] * b[7] + a[2] * b[6] + a[3] * b[5] + a[4] * b[4] + a[5] * b[3] + a[6] * b[2] + a[7] * b[1] + (c6 \div Radix)
        c8 == a[1] * b[8] + a[2] * b[7] + a[3] * b[6] + a[4] * b[5] + a[5] * b[4] + a[6] * b[3] + a[7] * b[2] + a[8] * b[1] + (c7 \div Radix)
    IN  <<c1 % Radix, c2 % Radix, c3 % Radix, c4 % Radix, c5 % Radix, c6 % Radix, c7 % Radix, c8 % Radix>>

\* (x >> 32) | (x << 32): the two 32-bit halves exchanged.
rotate32(x) == <<x[5], x[6], x[7], x[8], x[1], x[2], x[3], x[4]>>

\* x >> 32
shr32(x) == <<x[5], x[6], x[7], x[8], 0, 0, 0, 0>>

RECURSIVE XorBits(_, _, _)
XorBits(p, q, n) ==
    IF n = 0 THEN 0
    ELSE ((p + q) % 2) + 2 * XorBits(p \div 2, q \div 2, n - 1)

\* a ^ b
xor(a, b) == [i \in 1..Limbs |-> XorBits(a[i], b[i], 8)]

RECURSIVE ModFrom(_, _, _, _)
ModFrom(a, n, i, r) ==
    IF i = 0 THEN r ELSE ModFrom(a, n, i - 1, (r * Radix + a[i]) % n)

\* a % n for a positive n small enough to be a buffer length.
U64Mod(a, n) == ModFrom(a, n, Limbs, 0)

(***************************************************************************)
(* The Squares counter generator (src/src/prng.rs).                        *)
(***************************************************************************)
\* 0x7d8b63f54b86ca59
KEY == <<89, 202, 134, 75, 245, 99, 139, 125>>

squares(key, counter) ==
    LET x0 == wrapping_mul(counter, key)
        y  == x0
        z  == wrapping_add(y, key)
        x1 == rotate32(wrapping_add(wrapping_mul(x0, x0), y))
        x2 == rotate32(wrapping_add(wrapping_mul(x1, x1), z))
        x3 == rotate32(wrapping_add(wrapping_mul(x2, x2), y))
        t  == wrapping_add(wrapping_mul(x3, x3), z)
        x4 == rotate32(t)
    IN  xor(t, shr32(wrapping_add(wrapping_mul(x4, x4), y)))

\* Squares { key, seed }
with_key(key, seed) == [key |-> key, seed |-> seed]

\* Squares::new
Squares_new(seed) == with_key(KEY, seed)

\* A generator whose next steps the counter first and draws at the new one.
next_steps_first(g) ==
    [result |-> squares(g.key, wrapping_add(g.seed, U64(1))),
     prng   |-> [g EXCEPT !.seed = wrapping_add(g.seed, U64(1))]]

\* Squares::next: the draw at the held counter, and the generator after it.
next(g) ==
    [result |-> squares(g.key, g.seed),
     prng   |-> [g EXCEPT !.seed = wrapping_add(g.seed, U64(1))]]

\* A generator whose back steps the counter forward, as next does.
back_steps_forward(g) ==
    [result |-> squares(g.key, g.seed),
     prng   |-> [g EXCEPT !.seed = wrapping_add(g.seed, U64(1))]]

\* Squares::back: the draw at the held counter, and the generator after it.
back(g) ==
    [result |-> squares(g.key, g.seed),
     prng   |-> [g EXCEPT !.seed = wrapping_sub(g.seed, U64(1))]]

(***************************************************************************)
(* The reversible shuffle (src/src/shuffle.rs).                            *)
(***************************************************************************)
\* An exchange that assumes two distinct positions: the xor exchange
\* *left ^= *right; *right ^= *left; *left ^= *right, done in place.
swap_assumes_distinct(buf, left, right) ==
    LET b1 == [buf EXCEPT ![left + 1] = XorBits(buf[left + 1], buf[right + 1], 8)]
        b2 == [b1 EXCEPT ![right + 1] = XorBits(b1[right + 1], b1[left + 1], 8)]
    IN  [b2 EXCEPT ![left + 1] = XorBits(b2[left + 1], b2[right + 1], 8)]

\* swap(ptr.add(left), ptr.add(right)) on the buffer buf; positions count from 0.
\* tmp <- *left; *left <- *right; *right <- tmp, one copy after the other.
swap(buf, left, right) ==
    LET tmp  == buf[left + 1]
        buf1 == [buf EXCEPT ![left + 1] = buf[right + 1]]
    IN  [buf1 EXCEPT ![right + 1] = tmp]

\* usize::saturating_add(1)
saturating_inc(a) == IF a = U64_MAX THEN U64_MAX ELSE wrapping_add(a, U64(1))

\* FisherYates::with_seed
with_seed(seed) == [seed |-> seed]

\* A loop condition that ends the loop one pass early: idx + 1 < len.
InLoop_stops_one_early(i, n) == U64Lt(wrapping_add(i, U64(1)), U64(n))

\* The loop condition of shuffle and of reverse: idx < len.
InLoop(i, n) == U64Lt(i, U64(n))

(***************************************************************************)
(* The zeroizer (src/src/utils.rs) and the staging buffer                  *)
(* (src/src/crypto.rs).  A Buffer<N> is [data, len]: data is the N bytes   *)
(* of storage, len the number of them in use.                              *)
(***************************************************************************)
TAG_SIZE == 16

\* crypto::required_buffer_size
required_buffer_size(size) == size + TAG_SIZE

\* A fill the compiler removed as a dead store: the region keeps its bytes.
secure_memset_elided(region, value) == region

\* A memset whose loop stops one element early.
secure_memset_stops_early(region, value) ==
    [i \in 1..Len(region) |-> IF i < Len(region) THEN value ELSE region[i]]

\* secure_memset: every element of the region is written with value.
secure_memset(region, value) == [i \in 1..Len(region) |-> value]

\* Buffer::<N>::DATA_SIZE = N - TAG_SIZE, a usize computed when the program
\* is built: with N < TAG_SIZE the subtraction overflows and there is no
\* build.
DATA_SIZE(N) == N - TAG_SIZE

\* Buffer::<N>::new in a build with or without debug assertions: no program
\* where DATA_SIZE cannot be computed, a panic where
\* debug_assert!(DATA_SIZE > 0) is checked and fails, the zeroed buffer
\* otherwise.
Buffer_new(N, debug) ==
    IF N < TAG_SIZE THEN [result |-> "no build"]
    ELSE IF debug /\ ~(DATA_SIZE(N) > 0) THEN [result |-> "panic"]
    ELSE [result |-> "Ok",
          buffer |-> [data |-> [i \in 1..N |-> 0], len |-> 0]]

\* Buffer::data, and what Buffer::data_mut refers to: &self.data[..self.len]
data(b) == SubSeq(b.data, 1, b.len)

\* A data_mut that hands out the whole storage, &mut self.data[..].
data_mut_whole_storage(b) == b.data

\* Buffer::data_mut: the slice a caller may write through.
data_mut(b) == SubSeq(b.data, 1, b.len)

\* A write of value v at position i (from 1) of the slice data_mut hands out.
write(b, i, v) == [b EXCEPT !.data[i] = v]

\* usize::saturating_sub
saturating_sub(a, b) == IF b > a THEN 0 ELSE a - b

\* usize::saturating_add; the sums here stay far below usize::MAX.
saturating_add(a, b) == a + b

\* An append with no capacity test: it writes what the storage holds of the
\* slice and advances len by the slice's length.
extend_unchecked(b, other) ==
    [buffer |-> [data |-> [i \in 1..Len(b.data) |->
                             IF b.len < i /\ i <= b.len + Len(other)
                             THEN other[i - b.len] ELSE b.data[i]],
                 len  |-> b.len + Len(other)],
     result |-> "Ok"]

\* An append that copies the bytes that fit before it reports the overflow.
extend_partial_write(b, other) ==
    LET N == Len(b.data)
        remaining_capacity == saturating_sub(N, b.len)
    IN  IF Len(other) <= remaining_capacity
        THEN [buffer |-> [data |-> [i \in 1..N |->
                                      IF b.len < i /\ i <= b.len + Len(other)
                                      THEN other[i - b.len] ELSE b.data[i]],
                          len  |-> b.len + Len(other)],
              result |-> "Ok"]
        ELSE [buffer |-> [data |-> [i \in 1..N |->
                                      IF b.len < i THEN other[i - b.len]
                                      ELSE b.data[i]],
                          len  |-> b.len],
              result |-> "Err"]

\* An append whose capacity test is strict: other.len() < remaining_capacity.
extend_strict_test(b, other) ==
    LET N == Len(b.data)
        remaining_capacity == saturating_sub(N, b.len)
    IN  IF Len(other) < remaining_capacity
        THEN [buffer |-> [data |-> [i \in 1..N |->
                                      IF b.len < i /\ i <= b.len + Len(other)
                                      THEN other[i - b.len] ELSE b.data[i]],
                          len  |-> b.len + Len(other)],
              result |-> "Ok"]
        ELSE [buffer |-> b, result |-> "Err"]

\* An append that copies its bytes and leaves len as it was.
extend_keeps_len(b, other) ==
    LET N == Len(b.data)
        remaining_capacity == saturating_sub(N, b.len)
    IN  IF Len(other) <= remaining_capacity
        THEN [buffer |-> [data |-> [i \in 1..N |->
                                      IF b.len < i /\ i <= b.len + Len(other)
                                      THEN other[i - b.len] ELSE b.data[i]],
                          len  |-> b.len],
              result |-> "Ok"]
        ELSE [buffer |-> b, result |-> "Err"]

\* extend_from_slice: the buffer after the call and what the call returns.
extend_from_slice(b, other) ==
    LET N == Len(b.data)
        remaining_capacity == saturating_sub(N, b.len)
    IN  IF Len(other) <= remaining_capacity
        THEN [buffer |-> [data |-> [i \in 1..N |->
                                      IF /\ b.len < i
                                         /\ i <= saturating_add(b.len, Len(other))
                                      THEN other[i - b.len]
                                      ELSE b.data[i]],
                          len  |-> saturating_add(b.len, Len(other))],
              result |-> "Ok"]
        ELSE [buffer |-> b, result |-> "Err"]

\* debug_assert!(len < N) of truncate: checked in a build with debug assertions.
truncate_assert(b, new_len) == new_len < Len(b.data)

\* A truncate that sets len to new_len whenever the two differ.
truncate_sets_len(b, new_len) ==
    IF new_len < b.len
    THEN [data |-> SubSeq(b.data, 1, new_len)
                   \o secure_memset(SubSeq(data(b), new_len + 1, b.len), 0)
                   \o SubSeq(b.data, b.len + 1, Len(b.data)),
          len  |-> new_len]
    ELSE [b EXCEPT !.len = IF new_len <= Len(b.data) THEN new_len ELSE @]

\* truncate past its assertion: the buffer after the call.
truncate(b, new_len) ==
    IF new_len < b.len
    THEN [data |-> SubSeq(b.data, 1, new_len)
                   \o secure_memset(SubSeq(data(b), new_len + 1, b.len), 0)
                   \o SubSeq(b.data, b.len + 1, Len(b.data)),
          len  |-> new_len]
    ELSE b

\* Buffer::is_empty
is_empty(b) == b.len = 0

\* Buffer::len
length(b) == b.len

(***************************************************************************)
(* The cipher behind Crypto (the aes_gcm crate), as the staging buffer     *)
(* sees it: encryption replaces the bytes in use by a ciphertext of the    *)
(* same length and appends a tag of TAG_SIZE bytes; decryption verifies    *)
(* and strips the tag.  The ciphertext is the plaintext xor a keystream of *)
(* the key and the nonce; the tag is a digest of key, nonce and            *)
(* ciphertext.  Keys and nonces are small numbers standing for the 32 and  *)
(* 12 byte arrays.                                                         *)
(***************************************************************************)
Keystream(key, nonce, i) == (97 * key + 61 * nonce + 29 * i + 11) % Radix

Apply(key, nonce, bytes) ==
    [i \in 1..Len(bytes) |-> XorBits(bytes[i], Keystream(key, nonce, i), 8)]

RECURSIVE Digest(_, _)
Digest(bytes, i) ==
    IF i > Len(bytes) THEN 0 ELSE (i * bytes[i] + Digest(bytes, i + 1)) % 251

Tag(key, nonce, ciphertext) ==
    [j \in 1..TAG_SIZE |->
        (131 * key + 67 * nonce + Digest(ciphertext, 1) + 7 * j) % Radix]

\* AeadInOut::encrypt_in_place: encrypt buffer.as_mut() where it lies, then
\* buffer.extend_from_slice(tag).
encrypt_in_place(key, nonce, b) ==
    LET ciphertext == Apply(key, nonce, data(b))
        encrypted  == [b EXCEPT !.data = ciphertext
                                         \o SubSeq(b.data, b.len + 1, Len(b.data))]
    IN  extend_from_slice(encrypted, Tag(key, nonce, ciphertext))

\* AeadInOut::decrypt_in_place: split the tag off buffer.as_mut(), verify it,
\* decrypt the rest where it lies, then buffer.truncate(tagless_len).
decrypt_in_place(key, nonce, b) ==
    IF b.len < TAG_SIZE THEN [buffer |-> b, result |-> "Err"]
    ELSE LET tagless_len == b.len - TAG_SIZE
             ciphertext  == SubSeq(b.data, 1, tagless_len)
             tag         == SubSeq(b.data, tagless_len + 1, b.len)
         IN  IF tag # Tag(key, nonce, ciphertext)
             THEN [buffer |-> b, result |-> "Err"]
             ELSE [buffer |-> truncate([b EXCEPT !.data =
                                           Apply(key, nonce, ciphertext)
                                           \o SubSeq(b.data, tagless_len + 1,
                                                      Len(b.data))],
                                       tagless_len),
                   result |-> "Ok"]

\* Crypto::new
Crypto_new(key) == [aes |-> key]

\* An encrypt that passes a nonce of its own instead of the caller's.
encrypt_own_nonce(crypto, nonce, in_out) ==
    encrypt_in_place(crypto.aes, 0, in_out)

\* Crypto::encrypt
encrypt(crypto, nonce, in_out) == encrypt_in_place(crypto.aes, nonce, in_out)

\* A decrypt that strips the tag's length whether or not the tag verified.
decrypt_strips_tag_always(crypto, nonce, in_out) ==
    LET r == decrypt_in_place(crypto.aes, nonce, in_out)
    IN  IF r.result = "Ok" THEN r
        ELSE [buffer |-> truncate(in_out,
                                  saturating_sub(in_out.len, TAG_SIZE)),
              result |-> "Err"]

\* Crypto::decrypt
decrypt(crypto, nonce, in_out) == decrypt_in_place(crypto.aes, nonce, in_out)

(***************************************************************************)
(* Bounds and the inputs the callers draw from.                            *)
(***************************************************************************)
MaxLen == 4
MaxCalls == 2
MaxPayload == 1
MaxBufCalls == 4
MaxDraws == 4
MaxMem == 4

\* The capacity the staging buffers are built with.
Capacity == required_buffer_size(MaxPayload)

\* Seeds as the tests choose them: the low ones and those next to u64::MAX.
Seeds == {U64(0), U64(1), wrapping_sub(U64_MAX, U64(1)), U64_MAX}

\* The test's varied buffer: digits at even positions, letters at odd ones.
VarietyByte(i) == IF i % 2 = 0 THEN 48 + (i % 9) ELSE 65 + (i % 25)
Variety(n) == [i \in 1..n |-> VarietyByte(i - 1)]

\* "hello world", which repeats bytes.
HelloWorld == <<104, 101, 108, 108, 111, 32, 119, 111, 114, 108, 100>>
Hello(n) == [i \in 1..n |-> HelloWorld[((i - 1) % 11) + 1]]

Inputs == {Variety(n) : n \in 0..MaxLen} \cup {Hello(n) : n \in 0..MaxLen}

\* The slices the callers append: none or one byte '1', and runs of 'T' as
\* long as a tag and one longer than the whole buffer.
Run(byte, n) == [i \in 1..n |-> byte]
Slices == {Run(49, 0), Run(49, 1), Run(84, TAG_SIZE), Run(84, Capacity + 1)}

\* The keys and nonces the callers hold.
Keys == {1, 2}
Nonces == {1, 2}

\* The generators a caller builds with Squares::with_key: the default key
\* and one next to it, at the counters the seeds give and one more below
\* the wraparound.
GenKeys == {KEY, wrapping_add(KEY, U64(2))}
Starts == Seeds \cup {wrapping_sub(U64_MAX, U64(2))}

\* The bytes a caller's array holds and fills with: 255 and 1 as in the test,
\* and 0.
MemBytes == {0, 1, 255}

NoCall == [op |-> "none"]

VARIABLES
    fy,       \* the FisherYates value in use: [seed]
    in_out,   \* the caller's byte buffer
    pc,       \* "idle", or the operation running: "shuffle", "reverse"
    len,      \* the running operation's len
    idx,      \* the running operation's idx (usize)
    prng,     \* the running operation's generator
    cur,      \* history: the running call's seed, input and swaps so far
    last,     \* history: the call completed before this one
    ncalls,   \* calls started
    buffer,   \* the staging buffer: [data, len]
    debug_assertions,  \* the build: whether debug_assert! is checked
    panicked, \* a debug assertion has failed
    bcall,    \* history: the last call on the buffer, its argument, its
              \* result and the buffer before it
    abstract, \* history: the byte sequence the calls describe
    nbuf,     \* calls made on the buffer, where a specification counts them
    sealed,   \* history: the last encrypt that succeeded: its key, nonce,
              \* plaintext and ciphertext, and whether a decrypt has since
              \* failed on a buffer as long as that ciphertext
    gen,      \* a generator a caller steps by itself: [key, seed]
    gstart,   \* history: that generator as it was built
    fwd,      \* history: the values next() returned, in call order
    bwd,      \* history: the values back() returned, in call order
    gphase,   \* "next" while the caller steps forward, "back" afterwards
    gcall,    \* history: the last step, the generator before it, its result
    mem,      \* a caller's array of bytes
    mcall     \* history: the last secure_memset: the region data[from..to]
              \* it was given, the value, the array before and the region after

svars == <<fy, in_out, pc, len, idx, prng, cur, last, ncalls>>
bvars == <<buffer, debug_assertions, panicked, bcall, abstract, nbuf, sealed>>
gvars == <<gen, gstart, fwd, bwd, gphase, gcall>>
mvars == <<mem, mcall>>
uvars == <<gvars, mvars>>
vars == <<svars, bvars, uvars>>

\* The shuffle's caller starts with some FisherYates value and some buffer.
SInit ==
    /\ fy \in {with_seed(s) : s \in Seeds}
    /\ in_out \in Inputs
    /\ pc = "idle"
    /\ len = 0
    /\ idx = U64_ZERO
    /\ prng = Squares_new(U64_ZERO)
    /\ cur = NoCall
    /\ last = NoCall
    /\ ncalls = 0

\* What the buffer variable holds where Buffer::new has panicked.
NoBuffer == [data |-> <<>>, len |-> 0]

\* The caller builds its program with or without debug assertions and
\* starts with Buffer::<Capacity>::new().
BInit ==
    /\ debug_assertions \in BOOLEAN
    /\ \E r \in {Buffer_new(Capacity, debug_assertions)} :
          /\ r.result # "no build"
          /\ panicked = (r.result = "panic")
          /\ buffer = IF r.result = "Ok" THEN r.buffer ELSE NoBuffer
    /\ bcall = NoCall
    /\ abstract = <<>>
    /\ nbuf = 0
    /\ sealed = NoCall

\* The part of the state a specification leaves alone.
SNone ==
    /\ fy = with_seed(U64_ZERO)
    /\ in_out = <<>>
    /\ pc = "idle"
    /\ len = 0
    /\ idx = U64_ZERO
    /\ prng = Squares_new(U64_ZERO)
    /\ cur = NoCall
    /\ last = NoCall
    /\ ncalls = 0

BNone ==
    /\ buffer = Buffer_new(Capacity, FALSE).buffer
    /\ debug_assertions = FALSE
    /\ panicked = FALSE
    /\ bcall = NoCall
    /\ abstract = <<>>
    /\ nbuf = 0
    /\ sealed = NoCall

\* The caller of the generator starts with a generator it has just built.
GInit ==
    /\ gen \in {with_key(key, seed) : key \in GenKeys, seed \in Starts}
    /\ gstart = gen
    /\ fwd = <<>>
    /\ bwd = <<>>
    /\ gphase = "next"
    /\ gcall = NoCall

GNone ==
    /\ gen = Squares_new(U64_ZERO)
    /\ gstart = gen
    /\ fwd = <<>>
    /\ bwd = <<>>
    /\ gphase = "next"
    /\ gcall = NoCall

\* The caller of secure_memset starts with some array.
MInit ==
    /\ mem \in [1..MaxMem -> MemBytes]
    /\ mcall = NoCall

MNone ==
    /\ mem = <<>>
    /\ mcall = NoCall

UNone == GNone /\ MNone

Init == SInit /\ BNone /\ UNone

\* The caller constructs another FisherYates value.
WithSeed ==
    /\ pc = "idle"
    /\ \E s \in Seeds : fy' = with_seed(s)
    /\ UNCHANGED <<in_out, len, idx, prng, cur, last, ncalls>>
    /\ UNCHANGED pc
    /\ UNCHANGED <<bvars, uvars>>

\* The caller fills the buffer with other bytes.
Load ==
    /\ pc = "idle"
    /\ \E x \in Inputs : in_out' = x
    /\ UNCHANGED <<fy, pc, len, idx, prng, cur, last, ncalls>>
    /\ UNCHANGED <<bvars, uvars>>

Started(op) == [op |-> op, seed |-> fy.seed, input |-> in_out, swaps |-> <<>>]

\* A shuffle that goes on with the generator the call before it left behind.
ShuffleCall_keeps_generator ==
    /\ pc = "idle"
    /\ ncalls < MaxCalls
    /\ len' = Len(in_out)
    /\ idx' = U64_ZERO
    /\ prng' = IF ncalls = 0 THEN Squares_new(fy.seed) ELSE prng
    /\ pc' = "shuffle"
    /\ cur' = Started("shuffle")
    /\ ncalls' = ncalls + 1
    /\ UNCHANGED <<fy, in_out, last>>
    /\ UNCHANGED <<bvars, uvars>>

\* shuffle, up to its loop.
ShuffleCall ==
    /\ pc = "idle"
    /\ ncalls < MaxCalls
    /\ len' = Len(in_out)
    /\ idx' = U64_ZERO
    /\ prng' = Squares_new(fy.seed)
    /\ pc' = "shuffle"
    /\ cur' = Started("shuffle")
    /\ ncalls' = ncalls + 1
    /\ UNCHANGED <<fy, in_out, last>>
    /\ UNCHANGED <<bvars, uvars>>

\* A pass of shuffle's loop that steps its generator back.
ShuffleStep_steps_back ==
    /\ pc = "shuffle"
    /\ InLoop(idx, len)
    /\ \E draw \in {back(prng)} :
          LET swap_idx == U64Mod(draw.result, len)
              i        == U64ToNat(idx)
          IN  /\ in_out' = swap(in_out, i, swap_idx)
              /\ prng' = draw.prng
              /\ cur' = [cur EXCEPT !.swaps = Append(@, <<i, swap_idx>>)]
    /\ idx' = saturating_inc(idx)
    /\ UNCHANGED <<fy, pc, len, last, ncalls>>
    /\ UNCHANGED <<bvars, uvars>>

\* One pass of shuffle's loop.
ShuffleStep ==
    /\ pc = "shuffle"
    /\ InLoop(idx, len)
    /\ \E draw \in {next(prng)} :
          LET swap_idx == U64Mod(draw.result, len)
              i        == U64ToNat(idx)
          IN  /\ in_out' = swap(in_out, i, swap_idx)
              /\ prng' = draw.prng
              /\ cur' = [cur EXCEPT !.swaps = Append(@, <<i, swap_idx>>)]
    /\ idx' = saturating_inc(idx)
    /\ UNCHANGED <<fy, pc, len, last, ncalls>>
    /\ UNCHANGED <<bvars, uvars>>

\* A reverse whose generator starts at seed + len.
ReverseCall_seeds_at_len ==
    /\ pc = "idle"
    /\ ncalls < MaxCalls
    /\ len' = Len(in_out)
    /\ idx' = wrapping_sub(U64(Len(in_out)), U64(1))
    /\ prng' = Squares_new(wrapping_add(fy.seed, U64(Len(in_out))))
    /\ pc' = "reverse"
    /\ cur' = Started("reverse")
    /\ ncalls' = ncalls + 1
    /\ UNCHANGED <<fy, in_out, last>>
    /\ UNCHANGED <<bvars, uvars>>

\* A reverse that starts at index len, one past the last position.
ReverseCall_starts_at_len ==
    /\ pc = "idle"
    /\ ncalls < MaxCalls
    /\ len' = Len(in_out)
    /\ idx' = U64(Len(in_out))
    /\ prng' = Squares_new(wrapping_add(fy.seed, idx'))
    /\ pc' = "reverse"
    /\ cur' = Started("reverse")
    /\ ncalls' = ncalls + 1
    /\ UNCHANGED <<fy, in_out, last>>
    /\ UNCHANGED <<bvars, uvars>>

\* reverse, up to its loop.
ReverseCall ==
    /\ pc = "idle"
    /\ ncalls < MaxCalls
    /\ len' = Len(in_out)
    /\ idx' = wrapping_sub(U64(Len(in_out)), U64(1))
    /\ prng' = Squares_new(wrapping_add(fy.seed, idx'))
    /\ pc' = "reverse"
    /\ cur' = Started("reverse")
    /\ ncalls' = ncalls + 1
    /\ UNCHANGED <<fy, in_out, last>>
    /\ UNCHANGED <<bvars, uvars>>

\* One pass of reverse's loop.
ReverseStep ==
    /\ pc = "reverse"
    /\ InLoop(idx, len)
    /\ \E draw \in {back(prng)} :
          LET swap_idx == U64Mod(draw.result, len)
              i        == U64ToNat(idx)
          IN  /\ in_out' = swap(in_out, i, swap_idx)
              /\ prng' = draw.prng
              /\ cur' = [cur EXCEPT !.swaps = Append(@, <<i, swap_idx>>)]
    /\ idx' = wrapping_sub(idx, U64(1))
    /\ UNCHANGED <<fy, pc, len, last, ncalls>>
    /\ UNCHANGED <<bvars, uvars>>

\* The running operation leaves its loop and returns the buffer.
Return ==
    /\ pc \in {"shuffle", "reverse"}
    /\ ~InLoop(idx, len)
    /\ pc' = "idle"
    /\ last' = [op |-> cur.op, seed |-> cur.seed, input |-> cur.input,
                output |-> in_out, swaps |-> cur.swaps]
    /\ cur' = NoCall
    /\ UNCHANGED <<fy, in_out, len, idx, prng, ncalls>>
    /\ UNCHANGED <<bvars, uvars>>

Next ==
    \/ WithSeed
    \/ Load
    \/ ShuffleCall
    \/ ShuffleStep
    \/ ReverseCall
    \/ ReverseStep
    \/ Return

Spec == Init /\ [][Next]_vars

\* A caller that makes its calls on the buffer and with the FisherYates
\* value it started with.
CallsNext ==
    \/ ShuffleCall
    \/ ShuffleStep
    \/ ReverseCall
    \/ ReverseStep
    \/ Return

\* A call is inside its loop; a pass of either loop.
Looping == pc # "idle" /\ InLoop(idx, len)
Pass == ShuffleStep \/ ReverseStep

\* A call that has been made runs on: its loop passes and its return are
\* not put off for ever. The second condition is WF_vars(Pass) with
\* ENABLED <<Pass>>_vars written as the state predicate it amounts to: a
\* pass can be made exactly while a call is inside its loop.
FairSpec ==
    /\ Init
    /\ [][CallsNext]_vars
    /\ WF_vars(Return)
    /\ ([]<>(~Looping) \/ []<><<Pass>>_vars)

(***************************************************************************)
(* Calls on the staging buffer.                                            *)
(***************************************************************************)
Called(op, arg, result) ==
    [op |-> op, arg |-> arg, result |-> result, before |-> buffer]

\* buffer.extend_from_slice(other)
ExtendCall(other) ==
    /\ ~panicked
    /\ \E r \in {extend_from_slice(buffer, other)} :
          /\ buffer' = r.buffer
          /\ bcall' = Called("extend_from_slice", other, r.result)
          /\ abstract' = IF r.result = "Ok" THEN abstract \o other ELSE abstract
    /\ UNCHANGED <<debug_assertions, panicked, sealed>>
    /\ UNCHANGED <<svars, uvars>>

\* buffer.truncate(new_len) with the assertion passing or not compiled in.
TruncateCall(new_len) ==
    /\ ~panicked
    /\ debug_assertions => truncate_assert(buffer, new_len)
    /\ buffer' = truncate(buffer, new_len)
    /\ bcall' = Called("truncate", new_len, "Ok")
    /\ abstract' = IF new_len < Len(abstract)
                   THEN SubSeq(abstract, 1, new_len) ELSE abstract
    /\ UNCHANGED <<debug_assertions, panicked, sealed>>
    /\ UNCHANGED <<svars, uvars>>

\* buffer.truncate(new_len) failing its debug assertion: the call panics.
TruncatePanicCall(new_len) ==
    /\ ~panicked
    /\ debug_assertions
    /\ ~truncate_assert(buffer, new_len)
    /\ bcall' = Called("truncate", new_len, "panic")
    /\ panicked' = TRUE
    /\ UNCHANGED <<buffer, debug_assertions, abstract, sealed>>
    /\ UNCHANGED <<svars, uvars>>

ExtendFromSlice ==
    /\ \E other \in Slices : ExtendCall(other)
    /\ UNCHANGED nbuf

Truncate ==
    /\ \E new_len \in 0..Capacity : TruncateCall(new_len)
    /\ UNCHANGED nbuf

TruncatePanic ==
    /\ \E new_len \in 0..Capacity : TruncatePanicCall(new_len)
    /\ UNCHANGED nbuf

BufNext ==
    \/ ExtendFromSlice
    \/ Truncate
    \/ TruncatePanic

BufInit == SNone /\ BInit /\ UNone

\* Every sequence of extend_from_slice and truncate calls on a new buffer.
BufSpec == BufInit /\ [][BufNext]_vars

(***************************************************************************)
(* Calls of Crypto on the staging buffer, among calls on the buffer        *)
(* itself: every sequence of up to MaxBufCalls calls.                      *)
(***************************************************************************)
Counted ==
    /\ nbuf < MaxBufCalls
    /\ nbuf' = nbuf + 1

\* Crypto::new(key).encrypt(nonce, &mut buffer)
Encrypt ==
    /\ ~panicked
    /\ Counted
    /\ \E key \in Keys, nonce \in Nonces :
          \E r \in {encrypt(Crypto_new(key), nonce, buffer)} :
             /\ buffer' = r.buffer
             /\ bcall' = Called("encrypt", <<key, nonce>>, r.result)
             /\ abstract' = data(r.buffer)
             /\ sealed' = IF r.result = "Ok"
                          THEN [op |-> "encrypt", key |-> key, nonce |-> nonce,
                                plaintext |-> data(buffer),
                                ciphertext |-> data(r.buffer),
                                failed |-> FALSE]
                          ELSE sealed
    /\ UNCHANGED <<debug_assertions, panicked>>
    /\ UNCHANGED <<svars, uvars>>

\* Crypto::new(key).decrypt(nonce, &mut buffer)
Decrypt ==
    /\ ~panicked
    /\ Counted
    /\ \E key \in Keys, nonce \in Nonces :
          \E r \in {decrypt(Crypto_new(key), nonce, buffer)} :
             /\ buffer' = r.buffer
             /\ bcall' = Called("decrypt", <<key, nonce>>, r.result)
             /\ abstract' = data(r.buffer)
             /\ sealed' = IF /\ r.result = "Err"
                             /\ sealed.op = "encrypt"
                             /\ buffer.len = Len(sealed.ciphertext)
                          THEN [sealed EXCEPT !.failed = TRUE]
                          ELSE sealed
    /\ UNCHANGED <<debug_assertions, panicked>>
    /\ UNCHANGED <<svars, uvars>>

\* The lengths a caller truncates to between Crypto's calls: to nothing, by
\* one byte, to the payload a tag follows, and to the whole capacity.
TruncateLens(b) ==
    {0, saturating_sub(b.len, 1), saturating_sub(b.len, TAG_SIZE), Capacity}

\* A byte with its lowest bit flipped.
Flip(v) == IF v % 2 = 0 THEN v + 1 ELSE v - 1

\* The positions a caller writes at: the first and the last of the slice.
WriteAt(slice) == {1, Len(slice)} \cap DOMAIN slice

\* buffer.data_mut()[i] ^= 1
DataMutWrite ==
    /\ ~panicked
    /\ Counted
    /\ \E i \in WriteAt(data_mut(buffer)) :
          /\ buffer' = write(buffer, i, Flip(buffer.data[i]))
          /\ bcall' = Called("data_mut", i, "Ok")
          /\ abstract' = data(buffer')
    /\ UNCHANGED <<debug_assertions, panicked, sealed>>
    /\ UNCHANGED <<svars, uvars>>

StageBytes ==
    /\ Counted
    /\ \E other \in Slices : ExtendCall(other)

Shrink ==
    /\ Counted
    /\ \E new_len \in TruncateLens(buffer) : TruncateCall(new_len)

ShrinkPanic ==
    /\ Counted
    /\ \E new_len \in TruncateLens(buffer) : TruncatePanicCall(new_len)

CryptoNext ==
    \/ StageBytes
    \/ Shrink
    \/ ShrinkPanic
    \/ DataMutWrite
    \/ Encrypt
    \/ Decrypt

CryptoSpec == BufInit /\ [][CryptoNext]_vars

(***************************************************************************)
(* A caller stepping a generator by itself: up to MaxDraws calls of next,  *)
(* then a new generator at the counter of the last draw, stepped back as   *)
(* many times (the way reverse replays shuffle's draws).                   *)
(***************************************************************************)
Stepped(op, result) == [op |-> op, before |-> gen, result |-> result]

\* gen.next()
NextCall ==
    /\ gphase = "next"
    /\ Len(fwd) < MaxDraws
    /\ \E r \in {next(gen)} :
          /\ gen' = r.prng
          /\ fwd' = Append(fwd, r.result)
          /\ gcall' = Stepped("next", r.result)
    /\ UNCHANGED <<gstart, bwd, gphase>>
    /\ UNCHANGED <<svars, bvars, mvars>>

\* Squares::with_key(key, s + n - 1), after n draws from s.
Replay ==
    /\ gphase = "next"
    /\ Len(fwd) >= 1
    /\ gen' = with_key(gstart.key,
                       wrapping_add(gstart.seed, U64(Len(fwd) - 1)))
    /\ gphase' = "back"
    /\ gcall' = NoCall
    /\ UNCHANGED <<gstart, fwd, bwd>>
    /\ UNCHANGED <<svars, bvars, mvars>>

\* gen.back()
BackCall ==
    /\ gphase = "back"
    /\ Len(bwd) < Len(fwd)
    /\ \E r \in {back(gen)} :
          /\ gen' = r.prng
          /\ bwd' = Append(bwd, r.result)
          /\ gcall' = Stepped("back", r.result)
    /\ UNCHANGED <<gstart, fwd, gphase>>
    /\ UNCHANGED <<svars, bvars, mvars>>

PrngNext ==
    \/ NextCall
    \/ Replay
    \/ BackCall

PrngInit == SNone /\ BNone /\ GInit /\ MNone

PrngSpec == PrngInit /\ [][PrngNext]_vars

(***************************************************************************)
(* A caller of secure_memset on regions of its array, the empty ones       *)
(* included.                                                               *)
(***************************************************************************)
\* secure_memset(&mut mem[from..to], value)
SecureMemset ==
    /\ \E from \in 0..Len(mem), value \in MemBytes :
          \E to \in from..Len(mem) :
             \E region \in {secure_memset(SubSeq(mem, from + 1, to), value)} :
                /\ mem' = SubSeq(mem, 1, from) \o region
                                \o SubSeq(mem, to + 1, Len(mem))
                /\ mcall' = [op |-> "secure_memset", from |-> from, to |-> to,
                             value |-> value, before |-> mem,
                             region |-> region]
    /\ UNCHANGED <<svars, bvars, gvars>>

MemNext == SecureMemset

MemInit == SNone /\ BNone /\ GNone /\ MInit

MemSpec == MemInit /\ [][MemNext]_vars

(***************************************************************************)
(* Properties of the shuffle.                                              *)
(***************************************************************************)
\* The running operation has left its loop: in_out is what it returns.
Finished(op) == pc = op /\ ~InLoop(idx, len)

\* The running call follows a completed call of operation op with the same
\* seed, on the bytes that call returned.
Follows(op) == last.op = op /\ last.seed = cur.seed /\ last.output = cur.input

Count(s, v) == Cardinality({i \in DOMAIN s : s[i] = v})
Values(s) == {s[i] : i \in DOMAIN s}
SameBytes(a, b) ==
    /\ Len(a) = Len(b)
    /\ \A v \in Values(a) \cup Values(b) : Count(a, v) = Count(b, v)

\* C1. Inverse law: when reverse runs with seed s on what shuffle with seed s
\* returned for x, reverse returns exactly x, for every length from 0 up.
C1_InverseLaw ==
    (Finished("reverse") /\ Follows("shuffle")) => in_out = last.input

\* A reverse that has undone a shuffle which had moved bytes of a buffer of
\* three or more bytes.
C1_Witness ==
    /\ Finished("reverse") /\ Follows("shuffle")
    /\ len >= 3
    /\ last.output # last.input
    /\ in_out = last.input

\* C2. Permutation property: while shuffle or reverse runs, after every swap
\* step, and in what it returns, the buffer has the length and the multiset of
\* byte values of the call's input, also after a step with swap_idx = idx.
C2_Permutation ==
    /\ pc # "idle" => SameBytes(in_out, cur.input)
    /\ last.op # "none" => SameBytes(last.output, last.input)

\* A step of a call on two or more bytes has just exchanged a position with
\* itself.
C2_Witness ==
    /\ pc # "idle"
    /\ len >= 2
    /\ cur.swaps # <<>>
    /\ LET step == cur.swaps[Len(cur.swaps)] IN step[1] = step[2]
    /\ SameBytes(in_out, cur.input)

\* C3. Determinism: a shuffle that follows another shuffle made with the same
\* seed performs the same swaps when the lengths agree, whatever the bytes, and
\* returns the same bytes when the inputs agree.
C3_Determinism ==
    (Finished("shuffle") /\ last.op = "shuffle" /\ last.seed = cur.seed) =>
        /\ Len(last.input) = Len(cur.input) => cur.swaps = last.swaps
        /\ last.input = cur.input => in_out = last.output

\* A second shuffle of the same three or more bytes with the same seed has
\* moved bytes and agrees with the first.
C3_Witness ==
    /\ Finished("shuffle") /\ last.op = "shuffle" /\ last.seed = cur.seed
    /\ last.input = cur.input
    /\ len >= 3
    /\ in_out # cur.input
    /\ in_out = last.output

\* C15. Boundary lengths: on a buffer of length 0 shuffle and reverse never
\* enter their loop, so there is no swap and no modulo, and the buffer is
\* returned unchanged; on a buffer of length 1 each makes exactly one swap,
\* of position 0 with position 0, and returns the buffer unchanged.
C15_BoundaryLengths ==
    /\ (pc # "idle" /\ len = 0) =>
          /\ ~InLoop(idx, len)
          /\ cur.swaps = <<>>
          /\ in_out = cur.input
    /\ (pc # "idle" /\ len = 1 /\ ~InLoop(idx, len)) =>
          /\ cur.swaps = << <<0, 0>> >>
          /\ in_out = cur.input
    /\ (last.op # "none" /\ Len(last.input) = 0) =>
          /\ last.swaps = <<>>
          /\ last.output = last.input
    /\ (last.op # "none" /\ Len(last.input) = 1) =>
          /\ last.swaps = << <<0, 0>> >>
          /\ last.output = last.input

\* A reverse of one byte has left its loop after a shuffle of that byte
\* returned, each with its one swap.
C15_Witness ==
    /\ Finished("reverse")
    /\ len = 1
    /\ cur.swaps = << <<0, 0>> >>
    /\ last.op = "shuffle"
    /\ last.swaps = << <<0, 0>> >>
    /\ in_out = last.input

\* C16. shuffle is a Fisher-Yates shuffle: every step idx exchanges position
\* idx with a position swap_idx that is later than or equal to idx and below
\* len, and the steps take the positions 0, 1, .. once each.
C16_FisherYates ==
    /\ pc = "shuffle" =>
          \A k \in 1..Len(cur.swaps) :
             /\ cur.swaps[k][1] = k - 1
             /\ cur.swaps[k][1] <= cur.swaps[k][2]
             /\ cur.swaps[k][2] < len
    /\ Finished("shuffle") => Len(cur.swaps) = len

Reversed(s) == [k \in 1..Len(s) |-> s[Len(s) + 1 - k]]

\* C17. Mirrored swap sequence under wraparound: the pass of reverse, as of
\* shuffle, that handles index idx draws at counter (seed + idx) mod 2^64,
\* and the (idx, swap_idx) pairs of a reverse are those of a shuffle with the
\* same seed and length in the opposite order, also where seed + idx wraps
\* to 0 in the middle of the run.
C17_MirroredSwaps ==
    /\ (pc # "idle" /\ InLoop(idx, len)) =>
          /\ prng.seed = wrapping_add(cur.seed, idx)
          /\ prng.key = KEY
    /\ (/\ Finished("reverse")
        /\ last.op = "shuffle"
        /\ last.seed = cur.seed
        /\ Len(last.input) = len) =>
          cur.swaps = Reversed(last.swaps)

\* A reverse with seed 2^64 - 2 on three or more bytes, whose counters pass
\* 2^64 - 1 and wrap to 0, has mirrored the swaps of the shuffle before it,
\* not all of them swaps of a position with itself.
C17_Witness ==
    /\ Finished("reverse")
    /\ last.op = "shuffle"
    /\ last.seed = cur.seed
    /\ cur.seed = wrapping_sub(U64_MAX, U64(1))
    /\ Len(last.input) = len
    /\ len >= 3
    /\ Len(cur.swaps) = len
    /\ \E k \in 1..len : cur.swaps[k][1] # cur.swaps[k][2]
    /\ cur.swaps = Reversed(last.swaps)

\* C18. Two-sided inverse: when shuffle runs with seed s on what reverse with
\* seed s returned for x, shuffle returns exactly x.
C18_TwoSidedInverse ==
    (Finished("shuffle") /\ Follows("reverse")) => in_out = last.input

\* A shuffle that has undone a reverse which had moved bytes of a buffer of
\* three or more bytes.
C18_Witness ==
    /\ Finished("shuffle") /\ Follows("reverse")
    /\ len >= 3
    /\ last.output # last.input
    /\ in_out = last.input

Ascending(s) == \A k \in 1..Len(s) : s[k][1] = k - 1
Descending(s, n) == \A k \in 1..Len(s) : s[k][1] = n - k
InRange(s, n) ==
    \A k \in 1..Len(s) :
       /\ 0 <= s[k][1] /\ s[k][1] < n
       /\ 0 <= s[k][2] /\ s[k][2] < n

\* The steps a running call has made: never more than len, in shuffle at
\* idx = 0, 1, .., in reverse at idx = len - 1, len - 2, .., each idx and
\* swap_idx within [0, len); a call that has left its loop has made exactly
\* len steps, and reverse has left it with idx wrapped to the maximum.
ExactlyLenSteps ==
    /\ pc # "idle" =>
          /\ Len(cur.swaps) <= len
          /\ InRange(cur.swaps, len)
          /\ ~InLoop(idx, len) => Len(cur.swaps) = len
    /\ pc = "shuffle" =>
          /\ Ascending(cur.swaps)
          /\ idx = U64(Len(cur.swaps))
    /\ pc = "reverse" =>
          /\ Descending(cur.swaps, len)
          /\ idx = wrapping_sub(U64(len - Len(cur.swaps)), U64(1))
          /\ ~InLoop(idx, len) => idx = U64_MAX

\* C19. Termination with exactly len steps: every call of shuffle or reverse
\* returns, shuffle after exactly len steps at idx = 0..len-1 ascending,
\* reverse after exactly len steps at idx = len-1..0 descending and with idx
\* wrapped to the maximum value, every idx and swap_idx within [0, len).
C19_Termination ==
    /\ []ExactlyLenSteps
    /\ (pc # "idle") ~> (pc = "idle")

\* A reverse of the longest buffer has left its loop after len steps, down
\* from len - 1 to 0, with idx wrapped past 0.
C19_Witness ==
    /\ Finished("reverse")
    /\ len = MaxLen
    /\ Len(cur.swaps) = len
    /\ cur.swaps[1][1] = len - 1
    /\ cur.swaps[len][1] = 0
    /\ idx = U64_MAX

(***************************************************************************)
(* Properties of the staging buffer.                                       *)
(***************************************************************************)
Appended == bcall.op = "extend_from_slice"
Truncated == bcall.op = "truncate"

\* The bytes of storage at positions from..to-1, counted from 0.
Storage(b, from, to) == SubSeq(b.data, from + 1, to)

\* C4. Capacity overflow leaves the buffer untouched: an extend_from_slice with
\* more bytes than Capacity - len returns an error, and len and every byte of
\* the storage are what they were before the call.
C4_OverflowUntouched ==
    (Appended /\ Len(bcall.arg) > Capacity - bcall.before.len) =>
        /\ bcall.result = "Err"
        /\ buffer = bcall.before

\* An append of a tag-long slice was refused by a buffer holding bytes, with
\* room left for some of the slice.
C4_Witness ==
    /\ Appended
    /\ Len(bcall.arg) = TAG_SIZE
    /\ Len(bcall.arg) > Capacity - bcall.before.len
    /\ 0 < bcall.before.len /\ bcall.before.len < Capacity
    /\ bcall.result = "Err"

\* C5. Exact capacity boundary: extend_from_slice succeeds exactly when the
\* slice is no longer than Capacity - len, and then len grows by the slice's
\* length; an empty slice always succeeds and changes nothing, also at
\* len = Capacity, where one byte fails.
C5_ExactBoundary ==
    Appended =>
        /\ bcall.result = "Ok" <=> Len(bcall.arg) <= Capacity - bcall.before.len
        /\ bcall.result = "Ok" => buffer.len = bcall.before.len + Len(bcall.arg)
        /\ bcall.arg = <<>> => bcall.result = "Ok" /\ buffer = bcall.before

\* Appends have filled the buffer to exactly Capacity, the last of them
\* non-empty.
C5_Witness ==
    /\ Appended
    /\ bcall.result = "Ok"
    /\ bcall.arg # <<>>
    /\ bcall.before.len > 0
    /\ buffer.len = Capacity

\* C6. Zeroing on shrink: after truncate(k) on a buffer with len > k, len is
\* k, the storage at [k, old len) is 0 and the storage at [0, k) is unchanged.
C6_ZeroingOnShrink ==
    (Truncated /\ bcall.result = "Ok" /\ bcall.arg < bcall.before.len) =>
        /\ buffer.len = bcall.arg
        /\ \A i \in (bcall.arg + 1)..bcall.before.len : buffer.data[i] = 0
        /\ Storage(buffer, 0, bcall.arg) = Storage(bcall.before, 0, bcall.arg)

\* A truncate has cut two or more bytes off a buffer and kept some.
C6_Witness ==
    /\ Truncated /\ bcall.result = "Ok"
    /\ 0 < bcall.arg
    /\ bcall.arg + 2 <= bcall.before.len
    /\ \A i \in (bcall.arg + 1)..bcall.before.len : bcall.before.data[i] # 0
    /\ buffer.len = bcall.arg

\* C7. Length bound: in every state reached from Buffer::new() by
\* extend_from_slice, truncate, encrypt and decrypt calls, successful or
\* failing, 0 <= len <= Capacity.
C7_LengthBound == 0 <= buffer.len /\ buffer.len <= Capacity

\* A decrypt has failed on a buffer that an encrypt had filled to Capacity
\* with ciphertext and tag.
C7_Witness ==
    /\ bcall.op = "decrypt"
    /\ bcall.result = "Err"
    /\ buffer.len = Capacity
    /\ \A i \in 1..Capacity : buffer.data[i] \notin {0, 49, 84}

\* C8. Truncate never grows: truncate(new_len) with len <= new_len < Capacity
\* leaves len and every byte of the storage unchanged.
C8_TruncateNeverGrows ==
    (/\ Truncated
     /\ bcall.before.len <= bcall.arg
     /\ bcall.arg < Capacity) =>
        /\ bcall.result = "Ok"
        /\ buffer = bcall.before
        /\ data(buffer) = data(bcall.before)

\* A truncate to more than len was called on a buffer holding bytes.
C8_Witness ==
    /\ Truncated
    /\ 0 < bcall.before.len
    /\ bcall.before.len < bcall.arg
    /\ bcall.arg < Capacity
    /\ buffer = bcall.before

\* C9. Truncate to full capacity is accepted: truncate(Capacity) completes
\* without a panic or a failed assertion and leaves len and storage unchanged,
\* in every buffer state.
C9_TruncateToCapacity ==
    (Truncated /\ bcall.arg = Capacity) =>
        /\ bcall.result # "panic"
        /\ ~panicked
        /\ buffer = bcall.before

\* C10. The buffer refines an abstract byte sequence: data() is the
\* concatenation of the successful appends, cut to k at each shrinking
\* truncate(k); len() is its length and is_empty() holds exactly when it is
\* empty.
C10_Refinement ==
    /\ data(buffer) = abstract
    /\ length(buffer) = Len(abstract)
    /\ is_empty(buffer) <=> abstract = <<>>

\* An append has written a '1' right after the bytes a truncate kept of a run
\* of 'T'.
C10_Witness ==
    /\ Appended /\ bcall.result = "Ok"
    /\ buffer.len >= 3
    /\ buffer.len < TAG_SIZE
    /\ abstract[buffer.len - 1] = 84
    /\ abstract[buffer.len] = 49
    /\ data(buffer) = abstract

(***************************************************************************)
(* Properties of Crypto on the staging buffer.                             *)
(***************************************************************************)
\* The buffer the last call started from held what the recorded encrypt
\* produced.
HeldSealed == sealed.op = "encrypt" /\ data(bcall.before) = sealed.ciphertext

\* The last call was given the key and the nonce of the recorded encrypt.
SameKeyAndNonce == bcall.arg = <<sealed.key, sealed.nonce>>

\* C12. Round trip: with capacity N = required_buffer_size(p) = p + 16 and p
\* plaintext bytes staged, encrypt succeeds and leaves len = N; decrypt with
\* the same key and nonce then succeeds, leaves len = p, and data() is the
\* plaintext.
C12_RoundTrip ==
    /\ Capacity = MaxPayload + TAG_SIZE
    /\ (bcall.op = "encrypt" /\ bcall.before.len = MaxPayload) =>
          /\ bcall.result = "Ok"
          /\ buffer.len = Capacity
    /\ (/\ bcall.op = "decrypt"
        /\ HeldSealed
        /\ Len(sealed.plaintext) = MaxPayload
        /\ SameKeyAndNonce) =>
          /\ bcall.result = "Ok"
          /\ buffer.len = MaxPayload
          /\ data(buffer) = sealed.plaintext

\* A decrypt has given back the staged byte '1' from a buffer that an encrypt
\* with the same key and nonce had filled to its capacity.
C12_Witness ==
    /\ bcall.op = "decrypt"
    /\ bcall.result = "Ok"
    /\ HeldSealed
    /\ SameKeyAndNonce
    /\ bcall.before.len = Capacity
    /\ Len(sealed.plaintext) = MaxPayload
    /\ sealed.plaintext[1] = 49
    /\ data(buffer) = sealed.plaintext
    /\ data(bcall.before) # sealed.plaintext \o SubSeq(bcall.before.data, MaxPayload + 1, Capacity)

\* C13. Decrypt failure: a decrypt with a wrong key or a wrong nonce, or of
\* data written to since the encrypt, returns an error and does not panic; a
\* failed decrypt leaves len and the bytes as they were (nothing is
\* truncated); and a decrypt with the right key and nonce after a failed one
\* still succeeds and gives back the plaintext.
C13_DecryptFailure ==
    /\ (bcall.op = "decrypt" /\ HeldSealed /\ ~SameKeyAndNonce) =>
          bcall.result = "Err"
    /\ (/\ bcall.op = "decrypt"
        /\ sealed.op = "encrypt"
        /\ bcall.before.len = Len(sealed.ciphertext)
        /\ data(bcall.before) # sealed.ciphertext) =>
          bcall.result = "Err"
    /\ (bcall.op = "decrypt" /\ bcall.result = "Err") =>
          /\ ~panicked
          /\ buffer.len = bcall.before.len
          /\ buffer = bcall.before
    /\ (/\ bcall.op = "decrypt"
        /\ HeldSealed
        /\ SameKeyAndNonce
        /\ sealed.failed) =>
          /\ bcall.result = "Ok"
          /\ data(buffer) = sealed.plaintext

\* A decrypt with the right key and nonce has given back the staged byte
\* after another decrypt had failed on the same ciphertext.
C13_Witness ==
    /\ bcall.op = "decrypt"
    /\ bcall.result = "Ok"
    /\ HeldSealed
    /\ SameKeyAndNonce
    /\ sealed.failed
    /\ nbuf = 4
    /\ Len(sealed.plaintext) = MaxPayload
    /\ data(buffer) = sealed.plaintext
    /\ buffer.len = bcall.before.len - TAG_SIZE

\* C20. No stale bytes beyond the logical length: after any sequence of
\* extend_from_slice, truncate, writes through data_mut(), encrypt and
\* decrypt calls, failed ones included, every byte of the storage at
\* positions [len, N) is 0; after a decrypt that succeeded the 16 bytes that
\* held the tag are 0.
C20_NoStaleBytes ==
    /\ \A i \in (buffer.len + 1)..Len(buffer.data) : buffer.data[i] = 0
    /\ (bcall.op = "decrypt" /\ bcall.result = "Ok") =>
          /\ buffer.len = bcall.before.len - TAG_SIZE
          /\ Storage(buffer, buffer.len, buffer.len + TAG_SIZE)
                = Run(0, TAG_SIZE)

\* A decrypt has succeeded on a full buffer whose last 16 bytes held a tag,
\* not all zero, and those bytes are zero now.
C20_Witness ==
    /\ bcall.op = "decrypt"
    /\ bcall.result = "Ok"
    /\ bcall.before.len = Capacity
    /\ buffer.len = MaxPayload
    /\ \E i \in (MaxPayload + 1)..Capacity : bcall.before.data[i] # 0
    /\ \A i \in (MaxPayload + 1)..Capacity : buffer.data[i] = 0

(***************************************************************************)
(* Properties of secure_memset.                                            *)
(***************************************************************************)
\* C14. After secure_memset(region, v) every element of the region equals v
\* and the region is as long as before, for regions of any length, the empty
\* one included, whatever they held; nothing outside the region is written.
C14_MemsetPostcondition ==
    mcall.op = "secure_memset" =>
        /\ Len(mcall.region) = mcall.to - mcall.from
        /\ \A i \in 1..Len(mcall.region) : mcall.region[i] = mcall.value
        /\ Len(mem) = Len(mcall.before)
        /\ \A i \in 1..Len(mem) :
              IF mcall.from < i /\ i <= mcall.to
              THEN mem[i] = mcall.value
              ELSE mem[i] = mcall.before[i]

\* The test's call: a whole array of 255 has been filled with 1.
C14_Witness ==
    /\ mcall.op = "secure_memset"
    /\ mcall.from = 0
    /\ mcall.to = MaxMem
    /\ mcall.value = 1
    /\ \A i \in 1..MaxMem : mcall.before[i] = 255 /\ mem[i] = 1

(***************************************************************************)
(* Properties of the generator.                                            *)
(***************************************************************************)
\* C11: next returns the draw at the counter the generator held before the
\* call and leaves the counter one higher, back returns the same draw and
\* leaves it one lower, both modulo 2^64; the key never changes; and the
\* values back returns from a new generator at counter s + n - 1 are the
\* values n calls of next returned from s, in the opposite order.
C11_SteppingAndReplay ==
    /\ gen.key = gstart.key
    /\ gcall.op = "next" =>
          /\ gcall.result = squares(gcall.before.key, gcall.before.seed)
          /\ gen.seed = wrapping_add(gcall.before.seed, U64(1))
          /\ gen.key = gcall.before.key
    /\ gcall.op = "back" =>
          /\ gcall.result = squares(gcall.before.key, gcall.before.seed)
          /\ gen.seed = wrapping_sub(gcall.before.seed, U64(1))
          /\ gen.key = gcall.before.key
    /\ gphase = "back" =>
          \A k \in 1..Len(bwd) : bwd[k] = fwd[Len(fwd) + 1 - k]

\* Three draws forward from 2^64 - 1, across the wraparound, all replayed.
C11_Witness ==
    /\ gphase = "back"
    /\ gstart.seed = U64_MAX
    /\ Len(fwd) = 3
    /\ Len(bwd) = 3
    /\ gcall.op = "back"
    /\ gen.seed = wrapping_sub(U64_MAX, U64(1))

====
